---------------------------- MODULE Spec2Model ----------------------------
(***************************************************************************)
(* A model of HistoryView::GroupedMedia                                    *)
(* (Telegram/SourceFiles/history/view/media/history_view_media_grouped.cpp)*)
(* the album of up to kMaxSize media shown as one message: how the member  *)
(* list is built and reused (applyGroup), how the members are laid out and *)
(* rescaled (countOptimalSize, countCurrentSize, LayoutPlaylist), how the  *)
(* selection bands are merged (getBubbleSelectionIntervals), how a point   *)
(* is resolved (pointState, getPartState) and how the caption and the      *)
(* bubble flag are refreshed (updateNeedBubbleState).                      *)
(***************************************************************************)
EXTENDS Integers, Sequences, FiniteSets, TLC

(***************************************************************************)
(* Program constants.  kMaxSize is the album cap.  The others are values   *)
(* the file reads from the application's style sheet through st::, at the  *)
(* values of the default interface scale; captionLineHeight is the line    *)
(* height of the caption's text.                                           *)
(***************************************************************************)
kMaxSize == 10
historyGroupWidthMax == 430
historyGroupWidthMin == 100
historyGroupSkip == 4
msgPaddingLeft == 13
msgPaddingRight == 13
msgPaddingBottom == 8
mediaCaptionSkip == 5
captionLineHeight == 16

(***************************************************************************)
(* Bounds of the model.                                                    *)
(***************************************************************************)
NumItems == 3        \* history items the short candidate lists draw from
MaxCandidates == 2   \* longest of the short candidate lists
LongLen == 11        \* length of the long album, above kMaxSize
MaxCalls == 3        \* applyGroup calls on one group, the constructor's included
MaxFiles == 3        \* longest column of files that is sized
MaxUnder == 2        \* target widths this far below historyGroupWidthMin
MaxOver == 2         \* target widths this far above historyGroupWidthMax
LowSpan == 3         \* target widths this far above historyGroupWidthMin
MidWidth == 160      \* a target width between the two, where the spacing
                     \* rounds to one pixel below and to two above
MidSpan == 4         \* target widths this far around MidWidth
HighSpan == 3        \* target widths this far below historyGroupWidthMax
MaxSelParts == 3     \* members whose rectangles are drawn freely
MaxTop == 2          \* largest top of a freely drawn rectangle
MaxRectHeight == 1   \* largest height of a freely drawn rectangle
MaxBelow == 1        \* height of the group below its lowest member
MaxSizes == 3        \* longest size list given to LayoutPlaylist
MaxSizeWidth == 2    \* largest width in such a list
MaxSizeHeight == 2   \* largest height in such a list

---------------------------------------------------------------------------
(* Small helpers. *)

Max(a, b) == IF a >= b THEN a ELSE b
Min(a, b) == IF a <= b THEN a ELSE b

Take(s, n) == IF Len(s) <= n THEN s ELSE SubSeq(s, 1, n)

\* All sequences over S without repetition, of length 0..n.
RECURSIVE SeqsUpTo(_, _)
SeqsUpTo(S, n) ==
    IF n = 0 THEN {<< >>}
    ELSE LET shorter == SeqsUpTo(S, n - 1)
         IN  shorter \cup {Append(s, x) : s \in {t \in shorter : Len(t) = n - 1},
                                          x \in S}

NoRepeat(s) == \A i, j \in DOMAIN s : i # j => s[i] # s[j]

---------------------------------------------------------------------------
(* Data. *)

QRect(x, y, w, h) == [x |-> x, y |-> y, w |-> w, h |-> h]

\* QRect(): the null rectangle a Part's geometry fields start with.
NullRect == QRect(0, 0, 0, 0)

\* A Data::Media as this file sees it: the HistoryItem that owns it
\* (media->parent()) and what DetectMode asks of media->document().
\* Item 1 is a photo, 2 a file, 3 a video document, then the kinds repeat.
MediaOf(i) ==
    [parent      |-> i,
     document    |-> (i % 2 = 0) \/ (i % 4 = 3),
     isVideoFile |-> (i % 4 = 3)]

DetectMode(media) ==
    IF media.document /\ ~media.isVideoFile THEN "Column" ELSE "Grid"

\* GroupedMedia::Part::Part: the item of the media and a content delegate
\* freshly created by media->createView; content is the delegate's number.
Part(media, contentId) ==
    [item            |-> media.parent,
     content         |-> contentId,
     initialGeometry |-> NullRect,
     geometry        |-> NullRect,
     sides           |-> {}]

---------------------------------------------------------------------------
(* State. *)

VARIABLES
    parts,        \* _parts
    mode,         \* _mode
    caption,      \* _caption, as the natural width of its text; 0 is empty
    needBubble,   \* _needBubble
    created,      \* number of Part objects (content delegates) constructed
    maxWidth,     \* Object::_maxWidth, read through maxWidth()
    minHeight,    \* Object::_minHeight
    width,        \* Object::_width, read through width()
    height,       \* Object::_height, read through height()
    texts,        \* per item: natural width of its text; 0 is emptyText()
    parentBubble, \* any of the parent flags computeNeedBubble reads is set
    bubbleBottom, \* isBubbleBottom()
    op,           \* the operation that ran last
    medias,       \* argument of the last applyGroup
    result,       \* what the last applyGroup returned: "true", "false",
                  \* "ensures" when its Ensures failed, "none" before a call
    calls,        \* applyGroup calls so far
    newWidth,     \* argument of the last countCurrentSize
    selection,    \* argument of getBubbleSelectionIntervals: selected indices
    merged,       \* its local result when the loop over the parts ends
    intervals,    \* its return value
    sizes,        \* argument of LayoutPlaylist
    layout        \* return value of LayoutPlaylist

vars == <<parts, mode, caption, needBubble, created, maxWidth, minHeight,
          width, height, texts, parentBubble, bubbleBottom, op, medias,
          result, calls, newWidth, selection, merged, intervals, sizes, layout>>

groupVars == <<parts, mode, created>>
objectVars == <<maxWidth, minHeight, width, height>>
envVars == <<texts, parentBubble, bubbleBottom>>
selVars == <<selection, merged, intervals>>
playlistVars == <<sizes, layout>>

---------------------------------------------------------------------------
(* applyGroup and validateGroupParts. *)

\* The loop of validateGroupParts from its i-th step on (i counts from 0).
RECURSIVE validateFrom(_, _, _)
validateFrom(ps, ms, i) ==
    IF i = Len(ms) THEN i = Len(ps)
    ELSE IF i >= Len(ps) \/ ps[i + 1].item # ms[i + 1].parent THEN FALSE
    ELSE validateFrom(ps, ms, i + 1)

validateGroupParts(ps, ms) == validateFrom(ps, ms, 0)

\* The loop of applyGroup from its i-th medium on; acc is the group so far:
\* [parts, mode, modeChosen, created].
RECURSIVE applyLoop(_, _, _)
applyLoop(acc, ms, i) ==
    IF i > Len(ms) THEN acc
    ELSE LET media == ms[i]
             mediaMode == DetectMode(media)
         IN  IF ~acc.modeChosen
             THEN applyLoop([parts      |-> Append(acc.parts,
                                               Part(media, acc.created + 1)),
                             mode       |-> mediaMode,
                             modeChosen |-> TRUE,
                             created    |-> acc.created + 1], ms, i + 1)
             ELSE IF mediaMode # acc.mode
             THEN applyLoop(acc, ms, i + 1)
             ELSE applyLoop([acc EXCEPT
                                !.parts = Append(acc.parts,
                                                 Part(media, acc.created + 1)),
                                !.created = acc.created + 1], ms, i + 1)

\* applyGroup on a group (ps, md) with cr delegates created so far:
\* [parts, mode, created, ret], ret one of "true", "false" and "ensures",
\* the last when Ensures(_parts.size() <= kMaxSize) fails and ends the
\* program.
applyGroup(ps, md, cr, ms) ==
    IF validateGroupParts(ps, ms)
    THEN [parts |-> ps, mode |-> md, created |-> cr, ret |-> "true"]
    ELSE LET done == applyLoop([parts |-> ps, mode |-> md,
                                modeChosen |-> FALSE, created |-> cr], ms, 1)
             ret  == IF done.parts = << >> THEN "false"
                     ELSE IF Len(done.parts) <= kMaxSize THEN "true"
                     ELSE "ensures"
         IN  [parts |-> done.parts, mode |-> done.mode,
              created |-> done.created, ret |-> ret]

\* The candidate lists offered to applyGroup: every short list of distinct
\* items, and a long album of photos and videos in both orders.
Items == 1 .. NumItems
AllItems == 1 .. 2 * LongLen
MediaList(s) == [i \in DOMAIN s |-> MediaOf(s[i])]
Album(n) == [k \in 1 .. n |-> MediaOf(2 * k - 1)]
Reversed(s) == [k \in DOMAIN s |-> s[Len(s) + 1 - k]]
Candidates ==
    {MediaList(s) : s \in {t \in SeqsUpTo(Items, MaxCandidates) : NoRepeat(t)}}
        \cup {Album(LongLen), Reversed(Album(LongLen))}

---------------------------------------------------------------------------
(* LayoutPlaylist. *)

\* A QSize.
QSize(w, h) == [w |-> w, h |-> h]

\* ranges::max_element(sizes, std::less<>(), &QSize::width)->width()
RECURSIVE maxSizeWidth(_, _)
maxSizeWidth(szs, i) ==
    IF i = Len(szs) THEN szs[i].w
    ELSE Max(szs[i].w, maxSizeWidth(szs, i + 1))

\* The for loop of LayoutPlaylist from the i-th size on, top being the
\* running top and acc the result so far.
RECURSIVE playlistLoop(_, _, _, _, _)
playlistLoop(szs, w, i, top, acc) ==
    IF i > Len(szs) THEN acc
    ELSE playlistLoop(szs, w, i + 1, top + szs[i].h,
                      Append(acc, [geometry |-> QRect(0, top, w, szs[i].h),
                                   sides    |-> {"Left", "Right"}]))

LayoutPlaylistNoBottom(szs) ==
    LET stacked == playlistLoop(szs, maxSizeWidth(szs, 1), 1, 0, << >>)
    IN  [stacked EXCEPT ![1].sides = @ \cup {"Top"}]

\* LayoutPlaylist(sizes), for a non-empty list (Expects(!sizes.empty())).
LayoutPlaylist(szs) ==
    LET stacked  == playlistLoop(szs, maxSizeWidth(szs, 1), 1, 0, << >>)
        withTop  == [stacked EXCEPT ![1].sides = @ \cup {"Top"}]
    IN  [withTop EXCEPT ![Len(szs)].sides = @ \cup {"Bottom"}]

---------------------------------------------------------------------------
(* What the file asks of its collaborators. *)

\* content->maxWidth() of a file's delegate after initDimensions().
contentMaxWidth(item) == 200 + 10 * (item % 4)

\* The height a delegate gives its part; the last member may get more.
contentHeight(item, last) == 40 + 4 * (item % 3) + (IF last THEN 10 ELSE 0)

\* content->sizeForGroupingOptimal(maxWidth, last)
sizeForGroupingOptimal(item, mw, last) ==
    QSize(IF mw > 0 THEN mw ELSE contentMaxWidth(item),
          contentHeight(item, last))

\* content->sizeForGrouping(width, last)
sizeForGrouping(item, w, last) == QSize(w, contentHeight(item, last))

\* _caption.countHeight(width): the text, text wide on one line, wraps into
\* lines of captionLineHeight; an empty caption is never measured.
countHeight(text, w) ==
    captionLineHeight * ((text + Max(w, 1) - 1) \div Max(w, 1))

\* Ui::LayoutMediaGroup(sizes, maxWidth, minWidth, spacing): the packings it
\* may return for n sizes.  Every packing spans maxWidth, keeps spacing
\* between neighbours and gives a member the sides on which it touches the
\* outer edge.
GridLayouts ==
    LET M    == historyGroupWidthMax
        S    == historyGroupSkip
        half == (M - S) \div 2
        item(x, y, w, h, sd) == [geometry |-> QRect(x, y, w, h), sides |-> sd]
    IN  { \* one
          << item(0, 0, M, 320, {"Left", "Right", "Top", "Bottom"}) >>,
          \* two, side by side
          << item(0, 0, half, 284, {"Left", "Top", "Bottom"}),
             item(half + S, 0, M - half - S, 284, {"Right", "Top", "Bottom"}) >>,
          \* three: one at the left, two stacked at the right
          << item(0, 0, 283, 300, {"Left", "Top", "Bottom"}),
             item(283 + S, 0, M - 283 - S, 148, {"Right", "Top"}),
             item(283 + S, 148 + S, M - 283 - S, 300 - 148 - S,
                  {"Right", "Bottom"}) >>,
          \* three: one on top, two below
          << item(0, 0, M, 200, {"Left", "Top", "Right"}),
             item(0, 200 + S, half, 150, {"Left", "Bottom"}),
             item(half + S, 200 + S, M - half - S, 150, {"Right", "Bottom"}) >>,
          \* four: two rows of two
          << item(0, 0, 171, 160, {"Left", "Top"}),
             item(171 + S, 0, M - 171 - S, 160, {"Right", "Top"}),
             item(0, 160 + S, 300, 120, {"Left", "Bottom"}),
             item(300 + S, 160 + S, M - 300 - S, 120, {"Right", "Bottom"}) >>,
          \* four: a row of three, one below
          << item(0, 0, 96, 100, {"Left", "Top"}),
             item(96 + S, 0, 101, 100, {"Top"}),
             item(96 + S + 101 + S, 0, M - 96 - 101 - 2 * S, 100,
                  {"Right", "Top"}),
             item(0, 100 + S, M, 200, {"Left", "Right", "Bottom"}) >> }

LayoutMediaGroup(n) == {l \in GridLayouts : Len(l) = n}

---------------------------------------------------------------------------
(* countOptimalSize and countCurrentSize. *)

\* The first loop of countOptimalSize: the widest delegate of a column.
RECURSIVE columnMaxWidth(_, _)
columnMaxWidth(ps, i) ==
    IF i > Len(ps) THEN 0
    ELSE Max(contentMaxWidth(ps[i].item), columnMaxWidth(ps, i + 1))

\* The third loop of countOptimalSize: the largest right edge (with == TRUE)
\* or bottom edge of a layout, starting from acc.
RECURSIVE layoutExtent(_, _, _, _)
layoutExtent(l, i, acc, horizontal) ==
    IF i > Len(l) THEN acc
    ELSE layoutExtent(l, i + 1,
                      Max(acc, IF horizontal
                               THEN l[i].geometry.x + l[i].geometry.w
                               ELSE l[i].geometry.y + l[i].geometry.h),
                      horizontal)

\* What the caption adds below the members at width w.
captionExtra(cap, bb, w) ==
    IF cap = 0 THEN 0
    ELSE mediaCaptionSkip
           + countHeight(cap, w - msgPaddingLeft - msgPaddingRight)
           + (IF bb THEN msgPaddingBottom ELSE 0)

\* countOptimalSize with grid standing for what Ui::LayoutMediaGroup gave:
\* [parts, maxWidth, minHeight].
countOptimalSize(ps, md, cap, bb, grid) ==
    LET columnWidth == IF md = "Column" THEN columnMaxWidth(ps, 1) ELSE 0
        szs == [i \in DOMAIN ps |->
                   sizeForGroupingOptimal(ps[i].item, columnWidth,
                                          i = Len(ps))]
        l   == IF md = "Grid" THEN grid ELSE LayoutPlaylist(szs)
        mw  == layoutExtent(l, 1, columnWidth, TRUE)
        mh  == layoutExtent(l, 1, 0, FALSE)
    IN  [parts     |-> [i \in DOMAIN ps |->
                           [ps[i] EXCEPT !.initialGeometry = l[i].geometry,
                                         !.sides = l[i].sides]],
         maxWidth  |-> mw,
         minHeight |-> mh + captionExtra(cap, bb, mw)]

\* The products value * factor that IEEE double arithmetic leaves just
\* below k + 1/2 although value * newWidth / maxWidth is k + 1/2 exactly,
\* for maxWidth = historyGroupWidthMax: <<value, newWidth>>.  std::round
\* gives k there, not k + 1.
FloatTieDown ==
    {<<215, 57>>, <<215, 61>>, <<817, 65>>, <<43, 115>>, <<215, 115>>,
     <<301, 115>>, <<387, 115>>, <<473, 115>>, <<645, 115>>, <<731, 115>>,
     <<817, 115>>, <<215, 123>>, <<645, 123>>, <<645, 131>>, <<645, 139>>,
     <<645, 147>>, <<43, 155>>, <<301, 155>>, <<559, 155>>, <<645, 155>>,
     <<645, 163>>, <<559, 195>>, <<215, 221>>, <<215, 237>>, <<215, 253>>,
     <<43, 285>>, <<731, 285>>, <<45, 301>>, <<85, 301>>, <<165, 301>>,
     <<175, 301>>, <<325, 301>>, <<335, 301>>, <<345, 301>>, <<355, 301>>,
     <<365, 301>>, <<645, 301>>, <<655, 301>>, <<665, 301>>, <<675, 301>>,
     <<685, 301>>, <<695, 301>>, <<705, 301>>, <<715, 301>>, <<725, 301>>,
     <<645, 317>>, <<645, 333>>}

scaleInverted(value, nw, mw) == (2 * value * mw + nw) \div (2 * nw)

\* scale(value) = int(std::round(value * factor)), factor being
\* newWidth / float64(maxWidth()); value is never negative.
scale(value, nw, mw) ==
    IF mw = historyGroupWidthMax /\ <<value, nw>> \in FloatTieDown
    THEN (2 * value * nw + mw) \div (2 * mw) - 1
    ELSE (2 * value * nw + mw) \div (2 * mw)

gridGeometryNaive(part, nw, mw) ==
    QRect(scale(part.initialGeometry.x, nw, mw),
          scale(part.initialGeometry.y, nw, mw),
          scale(part.initialGeometry.w, nw, mw),
          scale(part.initialGeometry.h, nw, mw))

\* The body of the Grid loop of countCurrentSize: the rescaled rectangle of
\* one part.
gridGeometry(part, nw, mw) ==
    LET initialSpacing  == historyGroupSkip
        spacing         == scale(initialSpacing, nw, mw)
        initialGeometry == part.initialGeometry
        needRightSkip   == "Right" \notin part.sides
        needBottomSkip  == "Bottom" \notin part.sides
        initialLeft     == initialGeometry.x
        initialTop      == initialGeometry.y
        initialRight    == initialLeft + initialGeometry.w
                             + (IF needRightSkip THEN initialSpacing ELSE 0)
        initialBottom   == initialTop + initialGeometry.h
                             + (IF needBottomSkip THEN initialSpacing ELSE 0)
        left            == scale(initialLeft, nw, mw)
        top             == scale(initialTop, nw, mw)
    IN  QRect(left, top,
              scale(initialRight, nw, mw) - left
                  - (IF needRightSkip THEN spacing ELSE 0),
              scale(initialBottom, nw, mw) - top
                  - (IF needBottomSkip THEN spacing ELSE 0))

\* The Column loop of countCurrentSize from the i-th part on.
RECURSIVE columnLoop(_, _, _, _)
columnLoop(ps, nw, i, top) ==
    IF i > Len(ps) THEN [parts |-> ps, top |-> top]
    ELSE LET size == sizeForGrouping(ps[i].item, nw, i = Len(ps))
         IN  columnLoop([ps EXCEPT ![i].geometry = QRect(0, top, nw, size.h)],
                        nw, i + 1, top + size.h)

\* accumulate_max(newHeight, top + height) over the parts.
RECURSIVE gridHeight(_, _, _)
gridHeight(ps, i, acc) ==
    IF i > Len(ps) THEN acc
    ELSE gridHeight(ps, i + 1, Max(acc, ps[i].geometry.y + ps[i].geometry.h))

clampWidthNot(w, mw) == w

\* accumulate_min(newWidth, maxWidth())
clampWidth(w, mw) == Min(w, mw)

newHeightFirstPart(ps) == ps[1].geometry.y + ps[1].geometry.h

\* newHeight after the Grid loop.
newHeightOfGrid(ps) == gridHeight(ps, 1, 0)

\* countCurrentSize(newWidth): [parts, width, height].
countCurrentSize(ps, md, cap, bb, mw, target) ==
    LET nw == clampWidth(target, mw)
    IN  IF md = "Grid" /\ nw < historyGroupWidthMin
        THEN [parts |-> ps, width |-> nw, height |-> 0]
        ELSE IF md = "Column"
        THEN LET col == columnLoop(ps, nw, 1, 0)
             IN  [parts  |-> col.parts,
                  width  |-> nw,
                  height |-> col.top + captionExtra(cap, bb, nw)]
        ELSE LET scaled == [i \in DOMAIN ps |->
                               [ps[i] EXCEPT
                                   !.geometry = gridGeometry(ps[i], nw, mw)]]
             IN  [parts  |-> scaled,
                  width  |-> nw,
                  height |-> newHeightOfGrid(scaled)
                               + captionExtra(cap, bb, nw)]

---------------------------------------------------------------------------
(* Hit-testing. *)

\* QRect::contains(QPoint): an empty rectangle contains nothing.
contains(r, px, py) ==
    /\ r.w > 0 /\ r.h > 0
    /\ r.x <= px /\ px < r.x + r.w
    /\ r.y <= py /\ py < r.y + r.h

\* getPartState: the index of the first part whose geometry holds the
\* point, 0 when none does (the result is tagged with the parent's item).
RECURSIVE getPartStateFrom(_, _, _, _)
getPartStateFrom(ps, px, py, i) ==
    IF i > Len(ps) THEN 0
    ELSE IF contains(ps[i].geometry, px, py) THEN i
    ELSE getPartStateFrom(ps, px, py, i + 1)

getPartState(ps, px, py) == getPartStateFrom(ps, px, py, 1)

pointState(ps, w, h, px, py) ==
    IF ~contains(QRect(0, 0, w, h), px, py) THEN "Outside"
    ELSE IF \E i \in DOMAIN ps : contains(ps[i].geometry, px, py)
    THEN "GroupPart"
    ELSE "Inside"

---------------------------------------------------------------------------
(* updateNeedBubbleState and computeNeedBubble. *)

\* The Grid loop of the captionItem lambda from the i-th part on; found is
\* the item with text met so far, 0 for none (nullptr).
RECURSIVE captionLoop(_, _, _, _)
captionLoop(ps, tx, i, found) ==
    IF i > Len(ps) THEN found
    ELSE IF tx[ps[i].item] # 0
    THEN (IF found # 0 THEN 0 ELSE captionLoop(ps, tx, i + 1, ps[i].item))
    ELSE captionLoop(ps, tx, i + 1, found)

\* The captionItem lambda: the item whose text becomes the caption, 0 for
\* nullptr.
captionItem(ps, md, tx) ==
    IF md = "Column"
    THEN LET last == ps[Len(ps)].item
         IN  IF tx[last] = 0 THEN 0 ELSE last
    ELSE captionLoop(ps, tx, 1, 0)

\* createCaption(item): the caption holds the item's text.
createCaption(item, tx) == tx[item]

computeNeedBubble(cap, md, pb) ==
    IF cap # 0 \/ md = "Column" THEN TRUE ELSE pb

\* updateNeedBubbleState: [caption, needBubble].
updateNeedBubbleState(ps, md, cap, tx, pb) ==
    LET ci     == captionItem(ps, md, tx)
        newCap == IF ci # 0 THEN createCaption(ci, tx) ELSE cap
    IN  [caption |-> newCap, needBubble |-> computeNeedBubble(newCap, md, pb)]

---------------------------------------------------------------------------
(* getBubbleSelectionIntervals. *)

\* A BubbleSelectionInterval.
Interval(top, h) == [top |-> top, height |-> h]

mergeStepNeverMerge(res, g) == Append(res, Interval(g.y, g.h))

\* One turn of the loop for a selected part with rectangle g.
mergeStep(res, g) ==
    IF \/ res = << >>
       \/ res[Len(res)].top + res[Len(res)].height < g.y
       \/ res[Len(res)].top > g.y + g.h
    THEN Append(res, Interval(g.y, g.h))
    ELSE LET last      == res[Len(res)]
             newTop    == Min(last.top, g.y)
             newHeight == Max(last.top + last.height - newTop,
                              g.y + g.h - newTop)
         IN  [res EXCEPT ![Len(res)] = Interval(newTop, newHeight)]

\* The loop over the parts from the i-th on.  IsGroupItemSelection(selection,
\* i) is membership of the part's index in sel; FullSelection selects all.
RECURSIVE mergeLoop(_, _, _, _)
mergeLoop(ps, sel, i, res) ==
    IF i > Len(ps) THEN res
    ELSE IF i \notin sel THEN mergeLoop(ps, sel, i + 1, res)
    ELSE mergeLoop(ps, sel, i + 1, mergeStep(res, ps[i].geometry))

\* The stretch of the last interval when the last part is selected.
stretchLast(ps, sel, res, h) ==
    IF Len(ps) \in sel
    THEN [res EXCEPT ![Len(res)].height = h - res[Len(res)].top]
    ELSE res

---------------------------------------------------------------------------
(* The group's life: the constructor, then further applyGroup calls. *)

Fresh ==
    /\ parts = << >>
    /\ mode = "Grid"
    /\ caption = 0
    /\ needBubble = FALSE
    /\ created = 0
    /\ maxWidth = 0 /\ minHeight = 0 /\ width = 0 /\ height = 0
    /\ newWidth = 0
    /\ selection = {} /\ merged = << >> /\ intervals = << >>
    /\ sizes = << >> /\ layout = << >>
    /\ texts = [i \in AllItems |-> 0]
    /\ parentBubble = FALSE
    /\ bubbleBottom = FALSE
    /\ medias = << >>
    /\ result = "none"
    /\ calls = 0

Init ==
    /\ Fresh
    /\ op = "none"

\* GroupedMedia::GroupedMedia: the first kMaxSize media go to applyGroup,
\* and Ensures(result) ends the program when it reports failure.
Construct(ms) ==
    /\ op = "none"
    /\ LET r == applyGroup(parts, mode, created, Take(ms, kMaxSize))
       IN  /\ parts' = r.parts
           /\ mode' = r.mode
           /\ created' = r.created
           /\ result' = r.ret
           /\ op' = IF r.ret = "true" THEN "construct" ELSE "crashed"
    /\ medias' = Take(ms, kMaxSize)
    /\ calls' = calls + 1
    /\ UNCHANGED <<caption, needBubble, objectVars, envVars, newWidth,
                   selVars, playlistVars>>

\* A later applyGroup on the same group.
ApplyGroup(ms) ==
    /\ op \in {"construct", "applyGroup"}
    /\ calls < MaxCalls
    /\ LET r == applyGroup(parts, mode, created, ms)
       IN  /\ parts' = r.parts
           /\ mode' = r.mode
           /\ created' = r.created
           /\ result' = r.ret
           /\ op' = IF r.ret = "ensures" THEN "crashed" ELSE "applyGroup"
    /\ medias' = ms
    /\ calls' = calls + 1
    /\ UNCHANGED <<caption, needBubble, objectVars, envVars, newWidth,
                   selVars, playlistVars>>

Next ==
    \/ \E ms \in Candidates : Construct(ms)
    \/ \E ms \in Candidates : ApplyGroup(ms)

Spec == Init /\ [][Next]_vars

\* The state a constructor leaves for the candidate list ms, the items'
\* texts tx and the parent's flags, once the view has called
\* updateNeedBubbleState.
Constructed(ms, tx, pb, bb, bubbleUpdated) ==
    LET r == applyGroup(<< >>, "Grid", 0, Take(ms, kMaxSize))
        u == updateNeedBubbleState(r.parts, r.mode, 0, tx, pb)
    IN  /\ parts = r.parts
        /\ mode = r.mode
        /\ created = r.created
        /\ result = r.ret
        /\ medias = Take(ms, kMaxSize)
        /\ calls = 1
        /\ texts = tx
        /\ parentBubble = pb
        /\ bubbleBottom = bb
        /\ caption = IF bubbleUpdated THEN u.caption ELSE 0
        /\ needBubble = IF bubbleUpdated THEN u.needBubble ELSE FALSE
        /\ maxWidth = 0 /\ minHeight = 0 /\ width = 0 /\ height = 0
        /\ newWidth = 0
        /\ selection = {} /\ merged = << >> /\ intervals = << >>
        /\ sizes = << >> /\ layout = << >>
        /\ op = "construct"

---------------------------------------------------------------------------
(* Sizing: countOptimalSize, then countCurrentSize for the widths the     *)
(* view is given.                                                          *)

FileList(n) == [k \in 1 .. n |-> MediaOf(2 * k)]

\* The groups that are sized: an album for every packing, columns of
\* files, and a list that mixes both kinds.
SizeCandidates ==
    {Album(Len(l)) : l \in GridLayouts}
        \cup {FileList(n) : n \in 1 .. MaxFiles}
        \cup {MediaList(<<1, 2, 3>>)}

\* A text that needs several lines at the widths of the model.
longText == 600

\* Only the last candidate may carry text.
LastText(ms, t) == [i \in AllItems |-> IF i = ms[Len(ms)].parent THEN t ELSE 0]

TargetWidths ==
    ((historyGroupWidthMin - MaxUnder) .. (historyGroupWidthMin + LowSpan))
        \cup ((MidWidth - MidSpan) .. (MidWidth + MidSpan))
        \cup ((historyGroupWidthMax - HighSpan) .. (historyGroupWidthMax + MaxOver))

InitSize ==
    \E ms \in SizeCandidates, t \in {0, longText}, bb \in BOOLEAN :
        Constructed(ms, LastText(ms, t), FALSE, bb, TRUE)

\* Object::initDimensions: countOptimalSize, its result kept as maxWidth()
\* and minHeight().
CountOptimalSize ==
    /\ op \in {"construct", "countOptimalSize", "countCurrentSize"}
    /\ \E grid \in (IF mode = "Grid" THEN LayoutMediaGroup(Len(parts))
                    ELSE {<< >>}) :
          LET r == countOptimalSize(parts, mode, caption, bubbleBottom, grid)
          IN  /\ parts' = r.parts
              /\ maxWidth' = r.maxWidth
              /\ minHeight' = r.minHeight
    /\ op' = "countOptimalSize"
    /\ UNCHANGED <<mode, caption, needBubble, created, width, height, envVars,
                   medias, result, calls, newWidth, selVars, playlistVars>>

\* Object::resizeGetHeight(w): countCurrentSize(w), its result kept as
\* width() and height().
CountCurrentSize(w) ==
    /\ op \in {"countOptimalSize", "countCurrentSize"}
    /\ LET r == countCurrentSize(parts, mode, caption, bubbleBottom,
                                 maxWidth, w)
       IN  /\ parts' = r.parts
           /\ width' = r.width
           /\ height' = r.height
    /\ newWidth' = w
    /\ op' = "countCurrentSize"
    /\ UNCHANGED <<mode, caption, needBubble, created, maxWidth, minHeight,
                   envVars, medias, result, calls, selVars, playlistVars>>

NextSize ==
    \/ CountOptimalSize
    \/ \E w \in TargetWidths : CountCurrentSize(w)

SpecSize == InitSize /\ [][NextSize]_vars

---------------------------------------------------------------------------
(* The caption and the bubble flag while the members' texts change. *)

Texts == {0, 120, longText}

BubbleCandidates ==
    {Album(n) : n \in 1 .. 2} \cup {FileList(n) : n \in 1 .. 2}
        \cup {MediaList(<<1, 2, 3>>)}

InitBubble ==
    \E ms \in BubbleCandidates, pb \in BOOLEAN :
        Constructed(ms, [i \in AllItems |-> 0], pb, FALSE, FALSE)

\* A member's item gets another text (an edit of the message).
SetText(i, t) ==
    /\ \E k \in DOMAIN parts : parts[k].item = i
    /\ texts[i] # t
    /\ texts' = [texts EXCEPT ![i] = t]
    /\ op' = "setText"
    /\ UNCHANGED <<groupVars, caption, needBubble, objectVars, parentBubble,
                   bubbleBottom, medias, result, calls, newWidth, selVars,
                   playlistVars>>

UpdateNeedBubbleState ==
    /\ LET u == updateNeedBubbleState(parts, mode, caption, texts, parentBubble)
       IN  /\ caption' = u.caption
           /\ needBubble' = u.needBubble
    /\ op' = "updateNeedBubbleState"
    /\ UNCHANGED <<groupVars, objectVars, envVars, medias, result, calls,
                   newWidth, selVars, playlistVars>>

NextBubble ==
    \/ \E i \in AllItems, t \in Texts : SetText(i, t)
    \/ UpdateNeedBubbleState

SpecBubble == InitBubble /\ [][NextBubble]_vars

---------------------------------------------------------------------------
(* The selection bands of a group whose members have any rectangles. *)

FreeRects ==
    {QRect(0, y, 1, h) : y \in 0 .. MaxTop, h \in 1 .. MaxRectHeight}

\* The largest bottom edge of the members' rectangles.
RECURSIVE lowestBottom(_, _)
lowestBottom(ps, i) ==
    IF i > Len(ps) THEN 0
    ELSE Max(ps[i].geometry.y + ps[i].geometry.h, lowestBottom(ps, i + 1))

InitSel ==
    /\ mode = "Grid"
    /\ \E n \in 1 .. MaxSelParts :
          \E g \in [1 .. n -> FreeRects] :
              /\ parts = [i \in 1 .. n |->
                            [Part(MediaOf(2 * i - 1), i) EXCEPT
                                !.geometry = g[i]]]
              /\ created = n
              /\ \E below \in 0 .. MaxBelow :
                    height = lowestBottom(parts, 1) + below
    /\ caption = 0 /\ needBubble = FALSE
    /\ maxWidth = 1 /\ minHeight = 0 /\ width = 1
    /\ newWidth = 0
    /\ selection = {} /\ merged = << >> /\ intervals = << >>
    /\ sizes = << >> /\ layout = << >>
    /\ texts = [i \in AllItems |-> 0]
    /\ parentBubble = FALSE /\ bubbleBottom = FALSE
    /\ medias = << >> /\ result = "true" /\ calls = 1
    /\ op = "construct"

\* The method is const: asking again finds the same group, so one query a
\* behaviour shows them all.
GetBubbleSelectionIntervals ==
    /\ op = "construct"
    /\ \E sel \in SUBSET (DOMAIN parts) :
          LET res == mergeLoop(parts, sel, 1, << >>)
          IN  /\ merged' = res
              /\ intervals' = stretchLast(parts, sel, res, height)
              /\ selection' = sel
    /\ op' = "getBubbleSelectionIntervals"
    /\ UNCHANGED <<groupVars, caption, needBubble, objectVars, envVars,
                   medias, result, calls, newWidth, playlistVars>>

NextSel == GetBubbleSelectionIntervals

SpecSel == InitSel /\ [][NextSel]_vars

---------------------------------------------------------------------------
(* LayoutPlaylist on any list of sizes. *)

FreeSizes == {QSize(w, h) : w \in 1 .. MaxSizeWidth, h \in 0 .. MaxSizeHeight}

\* The function is pure: one call a behaviour shows them all.
CallLayoutPlaylist ==
    /\ op = "none"
    /\ \E n \in 1 .. MaxSizes : \E szs \in [1 .. n -> FreeSizes] :
          /\ sizes' = szs
          /\ layout' = LayoutPlaylist(szs)
    /\ op' = "LayoutPlaylist"
    /\ UNCHANGED <<groupVars, caption, needBubble, objectVars, envVars,
                   medias, result, calls, newWidth, selVars>>

NextPlaylist == CallLayoutPlaylist

SpecPlaylist == Init /\ [][NextPlaylist]_vars

---------------------------------------------------------------------------
(* Properties of applyGroup, checked under Spec. *)

\* C1: a second applyGroup with the candidate list of the call before it (at
\* most kMaxSize media of any mix of kinds) leaves the member list as it
\* was, in identity, order and length, and constructs no new Part.
C1_ReuseCorrectness ==
    [][(/\ op \in {"construct", "applyGroup"}
        /\ op' \in {"applyGroup", "crashed"}
        /\ medias' = medias
        /\ Len(medias) <= kMaxSize)
          => (parts' = parts /\ created' = created)]_vars

\* C2: whenever applyGroup reports success the group has at least one and at
\* most kMaxSize members, and a candidate list with no eligible member (an
\* empty one: the first candidate is always accepted) is never a success.
C2_SuccessHasMembers ==
    result = "true" =>
        /\ 1 <= Len(parts)
        /\ Len(parts) <= kMaxSize
        /\ medias # << >>

\* C3: after any sequence of applyGroup calls that returned, every member's
\* DetectMode is the group's mode.
C3_MembersShareMode ==
    op \in {"construct", "applyGroup"} =>
        \A i \in DOMAIN parts : DetectMode(MediaOf(parts[i].item)) = mode

---------------------------------------------------------------------------
(* Properties of the sizing, checked under SpecSize. *)

\* Two countCurrentSize calls in a row on a Grid group, the first with the
\* smaller target width, both targets between historyGroupWidthMin and the
\* natural maxWidth.
NarrowThenWide ==
    /\ op = "countCurrentSize" /\ op' = "countCurrentSize"
    /\ mode = "Grid"
    /\ historyGroupWidthMin <= newWidth /\ newWidth < newWidth'
    /\ newWidth' <= maxWidth

\* C4 as claimed: no member is wider at the smaller target width than at the
\* larger, and the returned height is not larger at the smaller width.
C4_RescaleMonotonic ==
    [][NarrowThenWide =>
          /\ \A i \in DOMAIN parts :
                parts[i].geometry.w <= parts'[i].geometry.w
          /\ height <= height']_vars

\* C4 as amended: a member is at most two pixels wider at the smaller target
\* width than at the larger (its width is a difference of three rounded
\* values), and with an empty caption the returned height is not larger at
\* the smaller width.
C4_RescaleNearlyMonotonic ==
    [][NarrowThenWide =>
          /\ \A i \in DOMAIN parts :
                parts[i].geometry.w <= parts'[i].geometry.w + 2
          /\ caption = 0 => height <= height']_vars

\* A Grid group of four rescaled below its natural width, no caption.
C4_Witness ==
    /\ op = "countCurrentSize" /\ mode = "Grid" /\ caption = 0
    /\ Len(parts) = 4
    /\ historyGroupWidthMin <= newWidth /\ newWidth < maxWidth
    /\ \E i \in DOMAIN parts :
          parts[i].geometry.w < parts[i].initialGeometry.w

\* C5: countCurrentSize on a Grid group with a target width equal to the
\* natural maxWidth, or above it, gives every member its initialGeometry.
C5_RescaleInvariance ==
    (op = "countCurrentSize" /\ mode = "Grid" /\ newWidth >= maxWidth) =>
        \A i \in DOMAIN parts : parts[i].geometry = parts[i].initialGeometry

\* A Grid group of four sized at a target above its natural width, after it
\* had been rescaled to a smaller one.
C5_Witness ==
    /\ op = "countCurrentSize" /\ mode = "Grid"
    /\ newWidth > maxWidth /\ width = maxWidth
    /\ Len(parts) = 4
    /\ parts[2].initialGeometry.x > 0

\* The last countCurrentSize rescaled a Grid group (its clamped target was
\* not below historyGroupWidthMin).
GridRescaled ==
    /\ op = "countCurrentSize" /\ mode = "Grid"
    /\ width >= historyGroupWidthMin

\* b lies right of a in the initial layout, exactly the skip away.
RightNeighbour(a, b) ==
    /\ "Right" \notin a.sides
    /\ b.initialGeometry.x
         = a.initialGeometry.x + a.initialGeometry.w + historyGroupSkip

\* b lies below a in the initial layout, exactly the skip away.
BelowNeighbour(a, b) ==
    /\ "Bottom" \notin a.sides
    /\ b.initialGeometry.y
         = a.initialGeometry.y + a.initialGeometry.h + historyGroupSkip

\* C6: after a Grid rescale the gap between any two members that were the
\* skip apart, horizontally or vertically, is the rescaled skip.
C6_UniformGap ==
    GridRescaled =>
        \A i, j \in DOMAIN parts :
            /\ RightNeighbour(parts[i], parts[j]) =>
                  parts[j].geometry.x
                      - (parts[i].geometry.x + parts[i].geometry.w)
                    = scale(historyGroupSkip, width, maxWidth)
            /\ BelowNeighbour(parts[i], parts[j]) =>
                  parts[j].geometry.y
                      - (parts[i].geometry.y + parts[i].geometry.h)
                    = scale(historyGroupSkip, width, maxWidth)

\* A rescaled Grid group with neighbours in both directions, its gap
\* rounded to less than the skip.
C6_Witness ==
    /\ GridRescaled /\ width < maxWidth
    /\ scale(historyGroupSkip, width, maxWidth) < historyGroupSkip
    /\ \E i, j \in DOMAIN parts : RightNeighbour(parts[i], parts[j])
    /\ \E i, j \in DOMAIN parts : BelowNeighbour(parts[i], parts[j])

\* The rectangle r lies in the bounding box (0, 0, width(), height()).
InsideBox(r) ==
    /\ 0 <= r.x /\ 0 <= r.y
    /\ r.x + r.w <= width
    /\ r.y + r.h <= height

\* The corner points of a rectangle that holds any point.
Corners(r) ==
    IF r.w > 0 /\ r.h > 0
    THEN {<<r.x, r.y>>, <<r.x + r.w - 1, r.y>>, <<r.x, r.y + r.h - 1>>,
          <<r.x + r.w - 1, r.y + r.h - 1>>}
    ELSE {}

\* Every member's rectangle lies in the bounding box, and pointState says
\* Outside at no corner of it that getPartState resolves to a member.
MembersInsideBox ==
    \A i \in DOMAIN parts :
        /\ InsideBox(parts[i].geometry)
        /\ \A pt \in Corners(parts[i].geometry) :
              getPartState(parts, pt[1], pt[2]) # 0
                  => pointState(parts, width, height, pt[1], pt[2]) # "Outside"

\* C9 as claimed: after countOptimalSize and any countCurrentSize calls, at
\* any target widths, the members lie in the bounding box.
C9_MembersInsideBox ==
    op \in {"countOptimalSize", "countCurrentSize"} => MembersInsideBox

\* C9 as amended: the members lie in the bounding box after a
\* countCurrentSize that laid them out, which a Grid group's does only for a
\* clamped target width of at least historyGroupWidthMin; below it the
\* members keep their rectangles and the box becomes (width, 0).
C9_MembersInsideBoxWhenLaidOut ==
    (/\ op = "countCurrentSize"
     /\ ~(mode = "Grid" /\ width < historyGroupWidthMin)) => MembersInsideBox

\* A Grid group of three or more rescaled below its natural width, with a
\* caption below it.
C9_Witness ==
    /\ GridRescaled /\ width < maxWidth
    /\ Len(parts) >= 3
    /\ caption # 0
    /\ \A i \in DOMAIN parts : Corners(parts[i].geometry) # {}

---------------------------------------------------------------------------
(* Properties of the caption, checked under SpecBubble. *)

\* The members that have text.
WithText == {k \in DOMAIN parts : texts[parts[k].item] # 0}

\* C10: after every updateNeedBubbleState the caption is non-empty exactly
\* when a caption item exists (Grid: exactly one member has text; Column:
\* the last member has text), and needsBubble() is true whenever the
\* caption is non-empty or the mode is Column.
C10_CaptionIffCaptionItem ==
    op = "updateNeedBubbleState" =>
        /\ (caption # 0) <=> (IF mode = "Grid" THEN Cardinality(WithText) = 1
                              ELSE Len(parts) \in WithText)
        /\ (caption # 0 \/ mode = "Column") => needBubble

---------------------------------------------------------------------------
(* Properties of getBubbleSelectionIntervals, checked under SpecSel. *)

\* The vertical extent of a rectangle or an interval, both ends included.
Extent(top, h) == top .. (top + h)

\* The intervals are in ascending order, none overlapping or touching the
\* next ones.
Separated(iv) ==
    \A i, j \in DOMAIN iv :
        i < j => iv[i].top + iv[i].height < iv[j].top

\* The intervals cover the extents of the selected members and nothing
\* else.
CoversSelected(iv) ==
    UNION {Extent(iv[i].top, iv[i].height) : i \in DOMAIN iv}
        = UNION {Extent(parts[k].geometry.y, parts[k].geometry.h) :
                    k \in selection}

\* The selected members' tops do not decrease in member order.
SelectedTopsAscend ==
    \A i, j \in selection :
        i < j => parts[i].geometry.y <= parts[j].geometry.y

---------------------------------------------------------------------------
(* Properties of LayoutPlaylist, checked under SpecPlaylist. *)

\* One rectangle per size, in order, at x = 0, as wide as the widest size
\* and as high as its size, each top the bottom of the rectangle before it
\* and the first top 0; Left and Right everywhere, Top on the first,
\* Bottom on the last.
StackedColumn ==
    /\ Len(layout) = Len(sizes)
    /\ \A i \in DOMAIN layout :
          /\ layout[i].geometry.x = 0
          /\ layout[i].geometry.h = sizes[i].h
          /\ \A j \in DOMAIN sizes : layout[i].geometry.w >= sizes[j].w
          /\ \E j \in DOMAIN sizes : layout[i].geometry.w = sizes[j].w
          /\ layout[i].geometry.y =
                IF i = 1 THEN 0
                ELSE layout[i - 1].geometry.y + layout[i - 1].geometry.h
          /\ {"Left", "Right"} \subseteq layout[i].sides
    /\ "Top" \in layout[1].sides
    /\ "Bottom" \in layout[Len(layout)].sides

\* C8 as claimed: the stacked column, its tops strictly increasing.
C8_PlaylistLayout ==
    op = "LayoutPlaylist" =>
        /\ StackedColumn
        /\ \A i \in DOMAIN layout :
              i > 1 => layout[i - 1].geometry.y < layout[i].geometry.y

\* C8 as amended: the stacked column, its tops never decreasing, and
\* increasing after every size of positive height; after a size of height 0
\* the next rectangle has the same top.
C8_PlaylistLayoutTopsAscend ==
    op = "LayoutPlaylist" =>
        /\ StackedColumn
        /\ \A i \in DOMAIN layout :
              i > 1 =>
                /\ layout[i - 1].geometry.y <= layout[i].geometry.y
                /\ sizes[i - 1].h > 0
                      => layout[i - 1].geometry.y < layout[i].geometry.y

\* Three sizes of different widths, one of height 0 in the middle.
C8_Witness ==
    /\ op = "LayoutPlaylist"
    /\ Len(sizes) = 3
    /\ sizes[1].w < sizes[2].w
    /\ sizes[1].h > 0 /\ sizes[2].h = 0 /\ sizes[3].h > 0
    /\ layout[3].geometry.y = layout[2].geometry.y

=============================================================================
